---- MODULE Spec2Model ----
(***************************************************************************)
(* Model of Scripts/eval_bucketing.py: label normalisation, coarse        *)
(* emotion mapping, domain canonicalisation, adjacency-aware bucketing    *)
(* and the two mismatch confusion tables computed by main().              *)
(*                                                                         *)
(* Strings are TLA+ strings handled character by character (SubSeq, Len,  *)
(* \o).  The module text is ASCII, so the en dash U+2013 that main()      *)
(* splits EmotionPro on is written "~"; "~" has no other role here.       *)
(***************************************************************************)
EXTENDS Integers, Sequences, FiniteSets, TLC

VARIABLES
    pc,                       \* position in main() / in the function harness
    EmotionPro,               \* df["EmotionPro"]: one cell per row
    DomainPro,                \* df["DomainPro"]: one cell per row
    manual_emotions,          \* df["manual_emotions"] after lines 94-108
    manual_domains,           \* df["manual_domains"] after lines 94-108
    manual_emotions_coarse,   \* derived columns; <<>> while not yet computed
    classifier_emotion_norm,
    classifier_domain_norm,
    manual_domains_canon,
    bucket_emotion_col,       \* df["bucket_emotion"], df["bucket_domain"]
    bucket_domain_col,
    emotion_counts,
    domain_counts,
    mm_e,                     \* row numbers of df[df["bucket_emotion"] == 3]
    emo_pairs,
    emo_cm,
    mm_d,
    dom_pairs,
    dom_cm,
    it,                       \* position of the running for loop in mm_e / mm_d
    arg,                      \* harness: the argument canonical_domain is called on
    ret1,                     \* harness: canonical_domain(arg)
    ret2                      \* harness: canonical_domain(canonical_domain(arg))

vars == <<pc, EmotionPro, DomainPro, manual_emotions, manual_domains,
          manual_emotions_coarse, classifier_emotion_norm, classifier_domain_norm,
          manual_domains_canon, bucket_emotion_col, bucket_domain_col,
          emotion_counts,
          domain_counts, mm_e, emo_pairs, emo_cm, mm_d, dom_pairs, dom_cm, it,
          arg, ret1, ret2>>

-----------------------------------------------------------------------------
(* Bounds of the model.                                                    *)

MaxRecords == 2        \* rows of a batch
MaxLabels == 2         \* manual labels of a row in the one-row specifications

-----------------------------------------------------------------------------
(* Python values.                                                          *)

None == <<>>           \* an absent argument; Str(s) is the str s
Str(s) == <<s>>
NaN == <<>>            \* an empty CSV cell as pandas reads it; Str(s) otherwise

Range(f) == {f[i] : i \in DOMAIN f}

(* str.lower(), str.strip(), "k in s", str.split(sep), on ASCII text. *)
UpperLetters == "ABCDEFGHIJKLMNOPQRSTUVWXYZ"
LowerLetters == "abcdefghijklmnopqrstuvwxyz"
Whitespace == {" ", "\t", "\n", "\r"}

CharAt(s, i) == SubSeq(s, i, i)

LowerChar(ch) ==
    IF \E i \in 1..Len(UpperLetters) : CharAt(UpperLetters, i) = ch
    THEN CharAt(LowerLetters, CHOOSE i \in 1..Len(UpperLetters) : CharAt(UpperLetters, i) = ch)
    ELSE ch

RECURSIVE Lower(_)
Lower(s) == IF s = "" THEN "" ELSE LowerChar(Head(s)) \o Lower(Tail(s))

RECURSIVE LStrip(_)
LStrip(s) == IF s /= "" /\ Head(s) \in Whitespace THEN LStrip(Tail(s)) ELSE s

RECURSIVE RStrip(_)
RStrip(s) ==
    IF s /= "" /\ CharAt(s, Len(s)) \in Whitespace
    THEN RStrip(SubSeq(s, 1, Len(s) - 1))
    ELSE s

Strip(s) == RStrip(LStrip(s))

\* Python's "k in s" for strings: k occurs in s as a contiguous substring.
Contains(k, s) ==
    \E i \in 1..(Len(s) - Len(k) + 1) : SubSeq(s, i, i + Len(k) - 1) = k

\* s.split(sep) for a one-character sep: the list of the parts between seps.
RECURSIVE Split(_, _)
Split(s, sep) ==
    IF \E i \in 1..Len(s) : CharAt(s, i) = sep
    THEN LET i == CHOOSE j \in 1..Len(s) :
                      /\ CharAt(s, j) = sep
                      /\ \A k \in 1..(j - 1) : CharAt(s, k) /= sep
         IN <<SubSeq(s, 1, i - 1)>> \o Split(SubSeq(s, i + 1, Len(s)), sep)
    ELSE <<s>>

Last(seq) == seq[Len(seq)]

(* Code-point order of the characters, for sorted() on str. *)
CodePointOrder ==
    "\t\n\r /0123456789ABCDEFGHIJKLMNOPQRSTUVWXYZ_abcdefghijklmnopqrstuvwxyz~"

Ord(ch) == CHOOSE i \in 1..Len(CodePointOrder) : CharAt(CodePointOrder, i) = ch

RECURSIVE StrLess(_, _)
StrLess(a, b) ==
    IF b = "" THEN FALSE
    ELSE IF a = "" THEN TRUE
    ELSE IF Head(a) = Head(b) THEN StrLess(Tail(a), Tail(b))
    ELSE Ord(Head(a)) < Ord(Head(b))

\* sorted(S) for a set S of str
RECURSIVE Sorted(_)
Sorted(S) ==
    IF S = {} THEN <<>>
    ELSE LET m == CHOOSE x \in S : \A y \in S \ {x} : StrLess(x, y)
         IN <<m>> \o Sorted(S \ {m})

-----------------------------------------------------------------------------
(* Static tables (lines 7-64).                                             *)

EMOTION_MAP ==
       ("happy" :> "joy")
    @@ ("excited" :> "joy")
    @@ ("proud" :> "joy")
    @@ ("grateful" :> "joy")
    @@ ("relieved" :> "joy")
    @@ ("motivated" :> "joy")
    @@ ("loved" :> "joy")
    @@ ("satisfied" :> "joy")
    @@ ("sad" :> "sadness")
    @@ ("lonely" :> "sadness")
    @@ ("tired" :> "sadness")
    @@ ("ashamed" :> "sadness")
    @@ ("embarrassed" :> "sadness")
    @@ ("bored" :> "sadness")
    @@ ("guilty" :> "sadness")
    @@ ("angry" :> "anger")
    @@ ("frustrated" :> "anger")
    @@ ("afraid" :> "fear")
    @@ ("anxious" :> "fear")
    @@ ("stressed" :> "fear")
    @@ ("surprised" :> "surprise")
    @@ ("disgusted" :> "disgust")
    @@ ("neutral" :> "neutral")
    @@ ("mixed" :> "mixed")

DOMAIN_ALIAS ==
       ("exercise" :> "exercise/fitness")
    @@ ("fitness" :> "exercise/fitness")
    @@ ("exercise/fitness" :> "exercise/fitness")
    @@ ("family" :> "family")
    @@ ("friends" :> "friends")
    @@ ("relationships" :> "relationships/marriage/partnership")
    @@ ("marriage" :> "relationships/marriage/partnership")
    @@ ("partnership" :> "relationships/marriage/partnership")
    @@ ("relationships/marriage/partnership" :> "relationships/marriage/partnership")
    @@ ("love" :> "love/romance")
    @@ ("romance" :> "love/romance")
    @@ ("love/romance" :> "love/romance")
    @@ ("food" :> "food/eating")
    @@ ("eating" :> "food/eating")
    @@ ("food/eating" :> "food/eating")
    @@ ("sleep" :> "sleep/rest")
    @@ ("rest" :> "sleep/rest")
    @@ ("sleep/rest" :> "sleep/rest")
    @@ ("health" :> "health/medical")
    @@ ("medical" :> "health/medical")
    @@ ("health/medical" :> "health/medical")
    @@ ("work" :> "work/career")
    @@ ("career" :> "work/career")
    @@ ("work/career" :> "work/career")
    @@ ("money" :> "money/finances")
    @@ ("finances" :> "money/finances")
    @@ ("finance" :> "money/finances")
    @@ ("money/finances" :> "money/finances")
    @@ ("school" :> "school/learning")
    @@ ("learning" :> "school/learning")
    @@ ("school/learning" :> "school/learning")
    @@ ("spirituality" :> "spirituality/religion")
    @@ ("religion" :> "spirituality/religion")
    @@ ("spirituality/religion" :> "spirituality/religion")
    @@ ("recreation" :> "recreation/leisure")
    @@ ("leisure" :> "recreation/leisure")
    @@ ("recreation/leisure" :> "recreation/leisure")
    @@ ("travel" :> "travel/nature")
    @@ ("nature" :> "travel/nature")
    @@ ("travel/nature" :> "travel/nature")
    @@ ("creativity" :> "creativity/art")
    @@ ("art" :> "creativity/art")
    @@ ("creativity/art" :> "creativity/art")
    @@ ("community" :> "community/society/politics")
    @@ ("society" :> "community/society/politics")
    @@ ("politics" :> "community/society/politics")
    @@ ("community/society/politics" :> "community/society/politics")
    @@ ("technology" :> "technology/media/internet")
    @@ ("media" :> "technology/media/internet")
    @@ ("internet" :> "technology/media/internet")
    @@ ("technology/media/internet" :> "technology/media/internet")
    @@ ("self" :> "self/growth/habits")
    @@ ("growth" :> "self/growth/habits")
    @@ ("habits" :> "self/growth/habits")
    @@ ("self/growth/habits" :> "self/growth/habits")

\* EMOTION_ADJ with an adjacency entered for "surprise"
EMOTION_ADJ_surprise_fear ==
       ("joy" :> {"neutral"})
    @@ ("neutral" :> {"joy", "sadness"})
    @@ ("sadness" :> {"anger", "fear", "neutral"})
    @@ ("anger" :> {"sadness"})
    @@ ("fear" :> {"sadness"})
    @@ ("surprise" :> {"fear"})
    @@ ("disgust" :> {"anger", "sadness"})
    @@ ("mixed" :> {"anger", "disgust", "fear", "joy", "neutral", "sadness", "surprise"})

EMOTION_ADJ ==
       ("joy" :> {"neutral"})
    @@ ("neutral" :> {"joy", "sadness"})
    @@ ("sadness" :> {"anger", "fear", "neutral"})
    @@ ("anger" :> {"sadness"})
    @@ ("fear" :> {"sadness"})
    @@ ("surprise" :> {})
    @@ ("disgust" :> {"anger", "sadness"})
    @@ ("mixed" :> {"anger", "disgust", "fear", "joy", "neutral", "sadness", "surprise"})

DOMAIN_ADJ ==
    { <<"love/romance", "relationships/marriage/partnership">>,
      <<"work/career", "money/finances">>,
      <<"health/medical", "exercise/fitness">>,
      <<"food/eating", "health/medical">>,
      <<"family", "friends">>,
      <<"travel/nature", "recreation/leisure">>,
      <<"creativity/art", "recreation/leisure">>,
      <<"technology/media/internet", "recreation/leisure">>,
      <<"school/learning", "self/growth/habits">> }

\* dict.get(k, default)
Get(d, k, default) == IF k \in DOMAIN d THEN d[k] ELSE default

-----------------------------------------------------------------------------
(* Label functions (lines 73-88).                                          *)

CanonicalNames ==
    <<"Joy", "Sadness", "Anger", "Fear", "Surprise", "Disgust", "Neutral", "Mixed">>

\* normalize_emotion_label searching the canonical names without regard to case
normalize_emotion_label_ignore_case(e) ==
    IF e = None THEN ""
    ELSE LET s == e[1]
             hits == {i \in DOMAIN CanonicalNames :
                         Contains(Lower(CanonicalNames[i]), Lower(s))}
         IN IF hits /= {}
            THEN Lower(CanonicalNames[CHOOSE i \in hits : \A j \in hits : i <= j])
            ELSE Lower(Strip(s))

normalize_emotion_label(e) ==
    IF e = None THEN ""
    ELSE LET s == e[1]
             hits == {i \in DOMAIN CanonicalNames : Contains(CanonicalNames[i], s)}
         IN IF hits /= {}
            THEN Lower(CanonicalNames[CHOOSE i \in hits : \A j \in hits : i <= j])
            ELSE Lower(Strip(s))

\* canonical_domain looking the raw text up before trimming and lower-casing it
canonical_domain_lookup_first(s) ==
    IF s = None THEN ""
    ELSE Lower(Strip(Get(DOMAIN_ALIAS, s[1], s[1])))

canonical_domain(s) ==
    IF s = None THEN ""
    ELSE LET t == Lower(Strip(s[1]))
         IN Get(DOMAIN_ALIAS, t, t)

\* is_domain_adjacent testing only the stored ordering of a pair
is_domain_adjacent_stored_order(a, b) ==
    IF a = "" \/ b = "" THEN FALSE
    ELSE LET x == Lower(a)
             y == Lower(b)
         IN x = y \/ <<x, y>> \in DOMAIN_ADJ

is_domain_adjacent(a, b) ==
    IF a = "" \/ b = "" THEN FALSE
    ELSE LET x == Lower(a)
             y == Lower(b)
         IN x = y \/ <<x, y>> \in DOMAIN_ADJ \/ <<y, x>> \in DOMAIN_ADJ

-----------------------------------------------------------------------------
(* Column functions of main() (lines 110-143).                             *)

map_manual_emotions(lst) ==
    Sorted({Get(EMOTION_MAP, lst[i], lst[i]) : i \in DOMAIN lst})

\* df[col].astype(str): an empty cell becomes the text "nan"
astype_str(cell) == IF cell = NaN THEN "nan" ELSE cell[1]

\* line 116, for one cell
classifier_emotion_norm_of(cell) ==
    normalize_emotion_label(Str(Strip(Last(Split(astype_str(cell), "~")))))

\* line 117, for one cell
classifier_domain_norm_of(cell) ==
    canonical_domain(Str(Strip(Lower(astype_str(cell)))))

\* line 120, for one cell
manual_domains_canon_of(lst) ==
    [i \in DOMAIN lst |-> canonical_domain(Str(lst[i]))]

\* bucket_emotion testing the "mixed" rule before the exact match
bucket_emotion_mixed_first(row) ==
    LET mset == Range(row.manual_emotions_coarse)
        c == row.classifier_emotion_norm
    IN IF mset = {} /\ c = "" THEN 2
       ELSE IF c = "mixed" /\ Cardinality(mset) > 1 THEN 2
       ELSE IF c \in mset THEN 1
       ELSE IF \E mm \in mset :
                   \/ (c \in DOMAIN EMOTION_ADJ /\ mm \in EMOTION_ADJ[c])
                   \/ (mm \in DOMAIN EMOTION_ADJ /\ c \in EMOTION_ADJ[mm])
            THEN 2
       ELSE 3

\* bucket_emotion without its final return: a row no rule matches gets no code
bucket_emotion_no_default(row) ==
    LET mset == Range(row.manual_emotions_coarse)
        c == row.classifier_emotion_norm
    IN IF mset = {} /\ c = "" THEN 2
       ELSE IF c \in mset THEN 1
       ELSE IF c = "mixed" /\ Cardinality(mset) > 1 THEN 2
       ELSE IF \E mm \in mset :
                   \/ (c \in DOMAIN EMOTION_ADJ /\ mm \in EMOTION_ADJ[c])
                   \/ (mm \in DOMAIN EMOTION_ADJ /\ c \in EMOTION_ADJ[mm])
            THEN 2
       ELSE 0

bucket_emotion(row) ==
    LET mset == Range(row.manual_emotions_coarse)
        c == row.classifier_emotion_norm
    IN IF mset = {} /\ c = "" THEN 2
       ELSE IF c \in mset THEN 1
       ELSE IF c = "mixed" /\ Cardinality(mset) > 1 THEN 2
       ELSE IF \E mm \in mset :
                   \/ (c \in DOMAIN EMOTION_ADJ /\ mm \in EMOTION_ADJ[c])
                   \/ (mm \in DOMAIN EMOTION_ADJ /\ c \in EMOTION_ADJ[mm])
            THEN 2
       ELSE 3

\* bucket_domain counting a "/"-part match as tolerant instead of exact
bucket_domain_part_tolerant(row) ==
    LET mset == {x \in Range(row.manual_domains_canon) : x /= ""}
        c == row.classifier_domain_norm
    IN IF mset = {} /\ c = "" THEN 2
       ELSE IF c \in mset THEN 1
       ELSE IF Contains("/", c) /\ \E p \in Range(Split(c, "/")) : p \in mset THEN 2
       ELSE IF \E mm \in mset : is_domain_adjacent(c, mm) THEN 2
       ELSE 3

\* bucket_domain keeping the empty entries of the manual list in mset
bucket_domain_keep_empty(row) ==
    LET mset == Range(row.manual_domains_canon)
        c == row.classifier_domain_norm
    IN IF mset = {} /\ c = "" THEN 2
       ELSE IF c \in mset THEN 1
       ELSE IF Contains("/", c) /\ \E p \in Range(Split(c, "/")) : p \in mset THEN 1
       ELSE IF \E mm \in mset : is_domain_adjacent(c, mm) THEN 2
       ELSE 3

bucket_domain(row) ==
    LET mset == {x \in Range(row.manual_domains_canon) : x /= ""}
        c == row.classifier_domain_norm
    IN IF mset = {} /\ c = "" THEN 2
       ELSE IF c \in mset THEN 1
       ELSE IF Contains("/", c) /\ \E p \in Range(Split(c, "/")) : p \in mset THEN 1
       ELSE IF \E mm \in mset : is_domain_adjacent(c, mm) THEN 2
       ELSE 3

\* Series.value_counts(): the values present, each with its number of rows
value_counts(col) ==
    [b \in Range(col) |-> Cardinality({r \in DOMAIN col : col[r] = b})]

\* the filter keeping every row that is not an exact match
mismatch_rows_not_exact(bucket) ==
    SelectSeq([r \in DOMAIN bucket |-> r], LAMBDA r : bucket[r] /= 1)

\* df[df[bucket] == 3], as the row numbers kept, in order
mismatch_rows(bucket) ==
    SelectSeq([r \in DOMAIN bucket |-> r], LAMBDA r : bucket[r] = 3)

\* lines 154-155 / 163-164: the pairs one row appends
pairs_of(manual, pred) == [k \in DOMAIN manual |-> <<manual[k], pred>>]

\* pd.crosstab(manual, predicted): rows and columns are the values observed
crosstab(pairs) ==
    LET rows == {pairs[k][1] : k \in DOMAIN pairs}
        cols == {pairs[k][2] : k \in DOMAIN pairs}
    IN [rc \in rows \X cols |-> Cardinality({k \in DOMAIN pairs : pairs[k] = rc})]

N == Len(EmotionPro)
Rows == 1..N

Row(r) ==
    [manual_emotions_coarse |-> manual_emotions_coarse[r],
     classifier_emotion_norm |-> classifier_emotion_norm[r],
     manual_domains_canon |-> manual_domains_canon[r],
     classifier_domain_norm |-> classifier_domain_norm[r]]

-----------------------------------------------------------------------------
(* Inputs.  A batch is the data frame after lines 91-108: the two          *)
(* classifier cells and the two manual label lists of every row.           *)

Record(me, ep, md, dp) ==
    [manual_emotions |-> me, EmotionPro |-> ep, manual_domains |-> md, DomainPro |-> dp]

\* Emotion side and domain side of the rows of a batch
EmotionSides ==
    { <<<<"proud">>, Str("3 ~ Joy")>>,
      <<<<"angry">>, Str("Disgusted")>>,
      <<<<"happy", "surprised", "excited">>, Str("Fear")>>,
      <<<<"sad", "weird">>, Str("joy")>>,
      <<<<>>, Str(" ")>> }

DomainSides ==
    { <<<<"fitness">>, Str("EXERCISE")>>,
      <<<<"fitness", "exercise">>, Str("family")>>,
      <<<<"love">>, Str("relationships")>>,
      <<<<"work", "", "foo">>, Str("Travel ")>>,
      <<<<"">>, Str("")>> }

Records ==
    { Record(e[1], e[2], d[1], d[2]) : e \in EmotionSides, d \in DomainSides }

Batches == UNION { [1..n -> Records] : n \in 1..MaxRecords }

\* One-row batches: every set of at most MaxLabels manual tokens, listed in
\* the order of the token list, against every classifier cell
ManualEmotionTokens ==
    <<"happy", "sad", "angry", "afraid", "surprised", "disgusted", "neutral",
      "mixed", "joy", "disgust", "weird", "">>

EmotionCells ==
    { NaN, Str(""), Str(" "), Str("Joy"), Str("Sadness"), Str("Anger"), Str("Fear"),
      Str("Surprise"), Str("Disgust"), Str("Neutral"), Str("Mixed"), Str("3 ~ Joy"),
      Str("12 ~ Mixed "), Str("Disgusted"), Str("disgusted"), Str("surprise"),
      Str("Weird"), Str("Mixed Joy"), Str("Joyless ~ Sadness") }

ManualDomainTokens ==
    <<"love", "relationships", "work", "money", "health", "exercise", "fitness",
      " Fitness ", "food", "family", "friends", "travel", "recreation", "creativity",
      "technology", "school", "self", "sleep", "foo", "foo/bar", "bar", "">>

DomainCells ==
    { NaN, Str(""), Str(" "), Str("love"), Str("Relationships"), Str("work"),
      Str("money"), Str("health"), Str("EXERCISE"), Str("food"), Str("family"),
      Str("friends"), Str("travel"), Str("recreation"), Str("creativity"),
      Str("technology"), Str("school"), Str("self"), Str("sleep"), Str("love/romance"),
      Str("foo"), Str("foo/bar"), Str("Foo/Family"), Str("family/") }

Lists(tokens) ==
    { SelectSeq(tokens, LAMBDA t : t \in S) :
        S \in { T \in SUBSET Range(tokens) : Cardinality(T) <= MaxLabels } }

OneRowBatches ==
    { <<Record(me, ep, <<>>, NaN)>> : me \in Lists(ManualEmotionTokens), ep \in EmotionCells }
    \cup
    { <<Record(<<>>, NaN, md, dp)>> : md \in Lists(ManualDomainTokens), dp \in DomainCells }

\* Arguments of the canonical_domain harness: absent, empty, every key of the
\* alias table as written, capitalised and padded, and unknown strings
CanonicalDomainArgs ==
    {None, Str(""), Str("  "), Str("foo"), Str(" Foo/Bar\t"), Str("nan"), Str("exercise fitness")}
    \cup { Str(k) : k \in DOMAIN DOMAIN_ALIAS }
    \cup { Str(" " \o k \o "  ") : k \in DOMAIN DOMAIN_ALIAS }
    \cup { Str(CharAt(UpperLetters, Ord(Head(k)) - Ord("a") + 1) \o Tail(k)) :
             k \in DOMAIN DOMAIN_ALIAS }

-----------------------------------------------------------------------------
(* main(), one action per statement (lines 110-166).                       *)

Load(batch) ==
    /\ EmotionPro = [r \in DOMAIN batch |-> batch[r].EmotionPro]
    /\ DomainPro = [r \in DOMAIN batch |-> batch[r].DomainPro]
    /\ manual_emotions = [r \in DOMAIN batch |-> batch[r].manual_emotions]
    /\ manual_domains = [r \in DOMAIN batch |-> batch[r].manual_domains]

Fresh ==
    /\ manual_emotions_coarse = <<>>
    /\ classifier_emotion_norm = <<>>
    /\ classifier_domain_norm = <<>>
    /\ manual_domains_canon = <<>>
    /\ bucket_emotion_col = <<>>
    /\ bucket_domain_col = <<>>
    /\ emotion_counts = <<>>
    /\ domain_counts = <<>>
    /\ mm_e = <<>>
    /\ emo_pairs = <<>>
    /\ emo_cm = <<>>
    /\ mm_d = <<>>
    /\ dom_pairs = <<>>
    /\ dom_cm = <<>>
    /\ it = 0

Init ==
    /\ pc = "coarse"
    /\ \E batch \in Batches : Load(batch)
    /\ Fresh
    /\ arg = None
    /\ ret1 = ""
    /\ ret2 = ""

InitOneRow ==
    /\ pc = "coarse"
    /\ \E batch \in OneRowBatches : Load(batch)
    /\ Fresh
    /\ arg = None
    /\ ret1 = ""
    /\ ret2 = ""

input == <<EmotionPro, DomainPro, manual_emotions, manual_domains>>
harness == <<arg, ret1, ret2>>

\* line 113
MapManualEmotions ==
    /\ pc = "coarse"
    /\ manual_emotions_coarse' = [r \in Rows |-> map_manual_emotions(manual_emotions[r])]
    /\ pc' = "emotion_norm"
    /\ UNCHANGED <<input, harness, classifier_emotion_norm, classifier_domain_norm,
                   manual_domains_canon, bucket_emotion_col, bucket_domain_col,
                   emotion_counts, domain_counts, mm_e, emo_pairs, emo_cm, mm_d,
                   dom_pairs, dom_cm, it>>

\* line 116
NormalizeClassifierEmotion ==
    /\ pc = "emotion_norm"
    /\ classifier_emotion_norm' = [r \in Rows |-> classifier_emotion_norm_of(EmotionPro[r])]
    /\ pc' = "domain_norm"
    /\ UNCHANGED <<input, harness, manual_emotions_coarse, classifier_domain_norm,
                   manual_domains_canon, bucket_emotion_col, bucket_domain_col,
                   emotion_counts, domain_counts, mm_e, emo_pairs, emo_cm, mm_d,
                   dom_pairs, dom_cm, it>>

\* line 117
NormalizeClassifierDomain ==
    /\ pc = "domain_norm"
    /\ classifier_domain_norm' = [r \in Rows |-> classifier_domain_norm_of(DomainPro[r])]
    /\ pc' = "canon"
    /\ UNCHANGED <<input, harness, manual_emotions_coarse, classifier_emotion_norm,
                   manual_domains_canon, bucket_emotion_col, bucket_domain_col,
                   emotion_counts, domain_counts, mm_e, emo_pairs, emo_cm, mm_d,
                   dom_pairs, dom_cm, it>>

\* line 120
CanonicalizeManualDomains ==
    /\ pc = "canon"
    /\ manual_domains_canon' = [r \in Rows |-> manual_domains_canon_of(manual_domains[r])]
    /\ pc' = "bucket_emotion"
    /\ UNCHANGED <<input, harness, manual_emotions_coarse, classifier_emotion_norm,
                   classifier_domain_norm, bucket_emotion_col, bucket_domain_col,
                   emotion_counts, domain_counts, mm_e, emo_pairs, emo_cm, mm_d,
                   dom_pairs, dom_cm, it>>

\* line 142
BucketEmotion ==
    /\ pc = "bucket_emotion"
    /\ bucket_emotion_col' = [r \in Rows |-> bucket_emotion(Row(r))]
    /\ pc' = "bucket_domain"
    /\ UNCHANGED <<input, harness, manual_emotions_coarse, classifier_emotion_norm,
                   classifier_domain_norm, manual_domains_canon, bucket_domain_col,
                   emotion_counts, domain_counts, mm_e, emo_pairs, emo_cm, mm_d,
                   dom_pairs, dom_cm, it>>

\* line 143
BucketDomain ==
    /\ pc = "bucket_domain"
    /\ bucket_domain_col' = [r \in Rows |-> bucket_domain(Row(r))]
    /\ pc' = "counts"
    /\ UNCHANGED <<input, harness, manual_emotions_coarse, classifier_emotion_norm,
                   classifier_domain_norm, manual_domains_canon, bucket_emotion_col,
                   emotion_counts, domain_counts, mm_e, emo_pairs, emo_cm, mm_d,
                   dom_pairs, dom_cm, it>>

\* lines 146-147
Counts ==
    /\ pc = "counts"
    /\ emotion_counts' = value_counts(bucket_emotion_col)
    /\ domain_counts' = value_counts(bucket_domain_col)
    /\ pc' = "emo_filter"
    /\ UNCHANGED <<input, harness, manual_emotions_coarse, classifier_emotion_norm,
                   classifier_domain_norm, manual_domains_canon, bucket_emotion_col,
                   bucket_domain_col, mm_e, emo_pairs, emo_cm, mm_d, dom_pairs,
                   dom_cm, it>>

\* lines 150-151
FilterEmotionMismatches ==
    /\ pc = "emo_filter"
    /\ mm_e' = mismatch_rows(bucket_emotion_col)
    /\ emo_pairs' = <<>>
    /\ it' = 1
    /\ pc' = "emo_loop"
    /\ UNCHANGED <<input, harness, manual_emotions_coarse, classifier_emotion_norm,
                   classifier_domain_norm, manual_domains_canon, bucket_emotion_col,
                   bucket_domain_col, emotion_counts, domain_counts, emo_cm, mm_d,
                   dom_pairs, dom_cm>>

\* lines 152-155, one row of mm_e
EmotionPairsOfRow ==
    /\ pc = "emo_loop"
    /\ it <= Len(mm_e)
    /\ LET row == Row(mm_e[it])
           pred == row.classifier_emotion_norm
       IN emo_pairs' = emo_pairs \o pairs_of(row.manual_emotions_coarse, pred)
    /\ it' = it + 1
    /\ UNCHANGED <<pc, input, harness, manual_emotions_coarse, classifier_emotion_norm,
                   classifier_domain_norm, manual_domains_canon, bucket_emotion_col,
                   bucket_domain_col, emotion_counts, domain_counts, mm_e, emo_cm,
                   mm_d, dom_pairs, dom_cm>>

\* lines 156-157
EmotionCrosstab ==
    /\ pc = "emo_loop"
    /\ it > Len(mm_e)
    /\ emo_cm' = crosstab(emo_pairs)
    /\ pc' = "dom_filter"
    /\ UNCHANGED <<input, harness, manual_emotions_coarse, classifier_emotion_norm,
                   classifier_domain_norm, manual_domains_canon, bucket_emotion_col,
                   bucket_domain_col, emotion_counts, domain_counts, mm_e, emo_pairs,
                   mm_d, dom_pairs, dom_cm, it>>

\* lines 159-160
FilterDomainMismatches ==
    /\ pc = "dom_filter"
    /\ mm_d' = mismatch_rows(bucket_domain_col)
    /\ dom_pairs' = <<>>
    /\ it' = 1
    /\ pc' = "dom_loop"
    /\ UNCHANGED <<input, harness, manual_emotions_coarse, classifier_emotion_norm,
                   classifier_domain_norm, manual_domains_canon, bucket_emotion_col,
                   bucket_domain_col, emotion_counts, domain_counts, mm_e, emo_pairs,
                   emo_cm, dom_cm>>

\* lines 161-164, one row of mm_d
DomainPairsOfRow ==
    /\ pc = "dom_loop"
    /\ it <= Len(mm_d)
    /\ LET row == Row(mm_d[it])
           pred == row.classifier_domain_norm
       IN dom_pairs' = dom_pairs \o pairs_of(row.manual_domains_canon, pred)
    /\ it' = it + 1
    /\ UNCHANGED <<pc, input, harness, manual_emotions_coarse, classifier_emotion_norm,
                   classifier_domain_norm, manual_domains_canon, bucket_emotion_col,
                   bucket_domain_col, emotion_counts, domain_counts, mm_e, emo_pairs,
                   emo_cm, mm_d, dom_cm>>

\* lines 165-166
DomainCrosstab ==
    /\ pc = "dom_loop"
    /\ it > Len(mm_d)
    /\ dom_cm' = crosstab(dom_pairs)
    /\ pc' = "done"
    /\ UNCHANGED <<input, harness, manual_emotions_coarse, classifier_emotion_norm,
                   classifier_domain_norm, manual_domains_canon, bucket_emotion_col,
                   bucket_domain_col, emotion_counts, domain_counts, mm_e, emo_pairs,
                   emo_cm, mm_d, dom_pairs, it>>

Next ==
    \/ MapManualEmotions
    \/ NormalizeClassifierEmotion
    \/ NormalizeClassifierDomain
    \/ CanonicalizeManualDomains
    \/ BucketEmotion
    \/ BucketDomain
    \/ Counts
    \/ FilterEmotionMismatches
    \/ EmotionPairsOfRow
    \/ EmotionCrosstab
    \/ FilterDomainMismatches
    \/ DomainPairsOfRow
    \/ DomainCrosstab

\* main() on a batch of up to MaxRecords rows
Spec == Init /\ [][Next]_vars

\* main() on every one-row batch of OneRowBatches
SpecOneRow == InitOneRow /\ [][Next]_vars

-----------------------------------------------------------------------------
(* canonical_domain applied to an argument, then to its own result.        *)

InitCanon ==
    /\ pc = "call"
    /\ EmotionPro = <<>>
    /\ DomainPro = <<>>
    /\ manual_emotions = <<>>
    /\ manual_domains = <<>>
    /\ Fresh
    /\ arg \in CanonicalDomainArgs
    /\ ret1 = ""
    /\ ret2 = ""

columns == <<manual_emotions_coarse, classifier_emotion_norm, classifier_domain_norm,
             manual_domains_canon, bucket_emotion_col, bucket_domain_col,
             emotion_counts, domain_counts, mm_e, emo_pairs, emo_cm, mm_d, dom_pairs,
             dom_cm, it>>

CallCanonicalDomain ==
    /\ pc = "call"
    /\ ret1' = canonical_domain(arg)
    /\ pc' = "call_again"
    /\ UNCHANGED <<input, columns, arg, ret2>>

CallCanonicalDomainAgain ==
    /\ pc = "call_again"
    /\ ret2' = canonical_domain(Str(ret1))
    /\ pc' = "returned"
    /\ UNCHANGED <<input, columns, arg, ret1>>

NextCanon == CallCanonicalDomain \/ CallCanonicalDomainAgain

SpecCanon == InitCanon /\ [][NextCanon]_vars

-----------------------------------------------------------------------------
(* Properties.                                                             *)

EmotionBucketed == bucket_emotion_col /= <<>>
DomainBucketed == bucket_domain_col /= <<>>

\* the manual sets the two bucket functions compare the classifier value with
EmotionMset(r) == Range(manual_emotions_coarse[r])
DomainMset(r) == {x \in Range(manual_domains_canon[r]) : x /= ""}

StoredEmotionPair(a, b) == a \in DOMAIN EMOTION_ADJ /\ b \in EMOTION_ADJ[a]
RECURSIVE Sum(_)
Sum(seq) == IF seq = <<>> THEN 0 ELSE Head(seq) + Sum(Tail(seq))

\* C1: on both axes, a row whose normalized classifier value is a member of
\* the manual set gets bucket 1, whatever other rule would also apply.
C1_ExactMatchPrecedence ==
    /\ EmotionBucketed =>
         \A r \in Rows :
             classifier_emotion_norm[r] \in EmotionMset(r) => bucket_emotion_col[r] = 1
    /\ DomainBucketed =>
         \A r \in Rows :
             classifier_domain_norm[r] \in DomainMset(r) => bucket_domain_col[r] = 1

\* "mixed" is in a manual set of several labels, one of them adjacent to it:
\* the mixed rule and the adjacency rule would both give 2, the bucket is 1
C1_Witness ==
    /\ pc = "done"
    /\ classifier_emotion_norm[1] = "mixed"
    /\ EmotionMset(1) = {"mixed", "joy"}
    /\ StoredEmotionPair("mixed", "joy")
    /\ bucket_emotion_col[1] = 1

\* C2: for every pair stored in one direction in EMOTION_ADJ or DOMAIN_ADJ, a
\* row whose manual set is one member of the pair and whose classifier value
\* is the other gets bucket 2, in both orders.
C2_AdjacencySymmetry ==
    /\ EmotionBucketed =>
         \A r \in Rows : \A m \in EmotionMset(r) :
             ( /\ EmotionMset(r) = {m}
               /\ \/ StoredEmotionPair(classifier_emotion_norm[r], m)
                  \/ StoredEmotionPair(m, classifier_emotion_norm[r]) )
             => bucket_emotion_col[r] = 2
    /\ DomainBucketed =>
         \A r \in Rows : \A m \in DomainMset(r) :
             ( /\ DomainMset(r) = {m}
               /\ \/ <<classifier_domain_norm[r], m>> \in DOMAIN_ADJ
                  \/ <<m, classifier_domain_norm[r]>> \in DOMAIN_ADJ )
             => bucket_domain_col[r] = 2

\* manual {"disgust"}, classifier "anger": only disgust's entry stores the pair
C2_Witness ==
    /\ pc = "done"
    /\ EmotionMset(1) = {"disgust"}
    /\ classifier_emotion_norm[1] = "anger"
    /\ ~StoredEmotionPair("anger", "disgust")
    /\ bucket_emotion_col[1] = 2

PairFromMismatch(pair, manual, pred, bucket) ==
    \E r \in Rows :
        /\ bucket[r] = 3
        /\ pair[1] \in Range(manual[r])
        /\ pair[2] = pred[r]

TableInScope(cm, manual, pred, bucket) ==
    \A rc \in DOMAIN cm :
        /\ \E r \in Rows : bucket[r] = 3 /\ rc[1] \in Range(manual[r])
        /\ \E r \in Rows : bucket[r] = 3 /\ rc[2] = pred[r]
        /\ cm[rc] > 0 => PairFromMismatch(rc, manual, pred, bucket)

\* C3: every pair in the pair lists and every tallied cell of the confusion
\* tables comes from a row with bucket 3 on that axis, only such rows are
\* iterated, and every row and column label is a manual value, resp. the
\* classifier value, of a bucket-3 row.
C3_ConfusionScope ==
    /\ \A k \in DOMAIN mm_e : bucket_emotion_col[mm_e[k]] = 3
    /\ \A k \in DOMAIN mm_d : bucket_domain_col[mm_d[k]] = 3
    /\ \A k \in DOMAIN emo_pairs :
         PairFromMismatch(emo_pairs[k], manual_emotions_coarse, classifier_emotion_norm,
                          bucket_emotion_col)
    /\ \A k \in DOMAIN dom_pairs :
         PairFromMismatch(dom_pairs[k], manual_domains_canon, classifier_domain_norm,
                          bucket_domain_col)
    /\ pc \in {"dom_filter", "dom_loop", "done"} =>
         /\ Len(emo_pairs) =
              Sum([r \in Rows |-> IF bucket_emotion_col[r] = 3
                                  THEN Len(manual_emotions_coarse[r]) ELSE 0])
         /\ TableInScope(emo_cm, manual_emotions_coarse, classifier_emotion_norm,
                         bucket_emotion_col)
    /\ pc = "done" =>
         /\ Len(dom_pairs) =
              Sum([r \in Rows |-> IF bucket_domain_col[r] = 3
                                  THEN Len(manual_domains_canon[r]) ELSE 0])
         /\ TableInScope(dom_cm, manual_domains_canon, classifier_domain_norm,
                         bucket_domain_col)

\* a batch with a mismatch row and a labelled row of bucket 1 or 2 on each
\* axis, and both tables non-empty
C3_Witness ==
    /\ pc = "done"
    /\ DOMAIN emo_cm /= {}
    /\ DOMAIN dom_cm /= {}
    /\ \E r \in Rows : bucket_emotion_col[r] \in {1, 2} /\ manual_emotions_coarse[r] /= <<>>
    /\ \E r \in Rows : bucket_domain_col[r] \in {1, 2} /\ manual_domains_canon[r] /= <<>>

\* the classifier text of a row as line 116 hands it to normalize_emotion_label
EmotionText(r) == Strip(Last(Split(astype_str(EmotionPro[r]), "~")))

\* C4 as claimed: "Disgusted" normalizes to "disgusted", and with manual
\* ["angry"] the row gets bucket_emotion 3.
C4_DisgustedPassesThrough ==
    \A r \in Rows :
        (EmotionPro[r] = Str("Disgusted") /\ manual_emotions[r] = <<"angry">>) =>
            /\ classifier_emotion_norm /= <<>> => classifier_emotion_norm[r] = "disgusted"
            /\ EmotionBucketed => bucket_emotion_col[r] = 3

\* C4 amended: a classifier text that contains no canonical name as a
\* case-sensitive substring normalizes to its trimmed lower-cased form, so
\* "disgusted" with manual ["angry"] gets bucket 3; "Disgusted" contains
\* "Disgust", normalizes to "disgust", and with manual ["angry"] gets bucket 2.
C4_SubstringNormalization ==
    \A r \in Rows :
        /\ ( /\ classifier_emotion_norm /= <<>>
             /\ \A i \in DOMAIN CanonicalNames : ~Contains(CanonicalNames[i], EmotionText(r)) )
           => classifier_emotion_norm[r] = Lower(EmotionText(r))
        /\ (EmotionPro[r] = Str("disgusted") /\ manual_emotions[r] = <<"angry">>) =>
             /\ classifier_emotion_norm /= <<>> => classifier_emotion_norm[r] = "disgusted"
             /\ EmotionBucketed => bucket_emotion_col[r] = 3
        /\ (EmotionPro[r] = Str("Disgusted") /\ manual_emotions[r] = <<"angry">>) =>
             /\ classifier_emotion_norm /= <<>> => classifier_emotion_norm[r] = "disgust"
             /\ EmotionBucketed => bucket_emotion_col[r] = 2

C4_Witness ==
    /\ pc = "done"
    /\ EmotionPro[1] = Str("disgusted")
    /\ manual_emotions[1] = <<"angry">>
    /\ manual_emotions_coarse[1] = <<"anger">>
    /\ classifier_emotion_norm[1] = "disgusted"
    /\ bucket_emotion_col[1] = 3

\* C5 as claimed: a domain mismatch row contributes one pair per distinct
\* canonical manual token, so two synonyms of one cluster add 1 to their cell.
C5_OnePairPerDistinctToken ==
    pc = "done" =>
        /\ Len(dom_pairs) =
             Sum([k \in DOMAIN mm_d |-> Cardinality(Range(manual_domains_canon[mm_d[k]]))])
        /\ \A rc \in DOMAIN dom_cm :
             dom_cm[rc] <= Cardinality({r \in Rows : /\ bucket_domain_col[r] = 3
                                                     /\ rc[1] \in Range(manual_domains_canon[r])
                                                     /\ rc[2] = classifier_domain_norm[r]})

\* every token of the static tables
TableTokens ==
    DOMAIN EMOTION_MAP \cup Range(EMOTION_MAP)
    \cup DOMAIN EMOTION_ADJ \cup UNION Range(EMOTION_ADJ)
    \cup DOMAIN DOMAIN_ALIAS \cup Range(DOMAIN_ALIAS)
    \cup {ab[1] : ab \in DOMAIN_ADJ} \cup {ab[2] : ab \in DOMAIN_ADJ}

Unknown(c) == c /= "" /\ c \notin TableTokens

\* C6 as claimed: with a non-empty manual set, an unknown classifier token
\* gets bucket 1 exactly when it equals a manual label, and 3 otherwise.
C6_UnknownOnlyExactEquality ==
    /\ EmotionBucketed =>
         \A r \in Rows :
             (Unknown(classifier_emotion_norm[r]) /\ EmotionMset(r) /= {}) =>
                 bucket_emotion_col[r] =
                     IF classifier_emotion_norm[r] \in EmotionMset(r) THEN 1 ELSE 3
    /\ DomainBucketed =>
         \A r \in Rows :
             (Unknown(classifier_domain_norm[r]) /\ DomainMset(r) /= {}) =>
                 bucket_domain_col[r] =
                     IF classifier_domain_norm[r] \in DomainMset(r) THEN 1 ELSE 3

SlashPartMatch(c, mset) ==
    /\ \E i \in 1..Len(c) : CharAt(c, i) = "/"
    /\ \E i \in 1..Len(c) + 1, j \in 0..Len(c) :
         /\ i = 1 \/ CharAt(c, i - 1) = "/"
         /\ j = Len(c) \/ CharAt(c, j + 1) = "/"
         /\ \A k \in i..j : CharAt(c, k) /= "/"
         /\ j >= i - 1
         /\ SubSeq(c, i, j) \in mset

\* C6 amended: with a non-empty manual set, an unknown classifier token gets
\* bucket 1 exactly when it equals a manual label or, on the domain axis, it
\* contains "/" and one of its "/"-separated parts equals a manual label; it
\* gets 3 otherwise, and never 2.
C6_UnknownExactOrSlashPart ==
    /\ EmotionBucketed =>
         \A r \in Rows :
             (Unknown(classifier_emotion_norm[r]) /\ EmotionMset(r) /= {}) =>
                 bucket_emotion_col[r] =
                     IF classifier_emotion_norm[r] \in EmotionMset(r) THEN 1 ELSE 3
    /\ DomainBucketed =>
         \A r \in Rows :
             (Unknown(classifier_domain_norm[r]) /\ DomainMset(r) /= {}) =>
                 bucket_domain_col[r] =
                     IF \/ classifier_domain_norm[r] \in DomainMset(r)
                        \/ SlashPartMatch(classifier_domain_norm[r], DomainMset(r))
                     THEN 1 ELSE 3

\* the unknown token "foo/bar" against the manual label "foo"
C6_Witness ==
    /\ pc = "done"
    /\ classifier_domain_norm[1] = "foo/bar"
    /\ Unknown("foo/bar")
    /\ DomainMset(1) = {"foo"}
    /\ bucket_domain_col[1] = 1

\* C7: on both axes, an empty manual set (for domain: after dropping empty
\* entries) with an empty normalized classifier value gets bucket 2.
C7_EmptyEmpty ==
    /\ EmotionBucketed =>
         \A r \in Rows :
             (EmotionMset(r) = {} /\ classifier_emotion_norm[r] = "") => bucket_emotion_col[r] = 2
    /\ DomainBucketed =>
         \A r \in Rows :
             (DomainMset(r) = {} /\ classifier_domain_norm[r] = "") => bucket_domain_col[r] = 2

\* a manual domain list holding only an empty entry, and a blank classifier cell
C7_Witness ==
    /\ pc = "done"
    /\ manual_domains[1] = <<"">>
    /\ manual_domains_canon[1] = <<"">>
    /\ DomainPro[1] = Str(" ")
    /\ classifier_domain_norm[1] = ""
    /\ bucket_domain_col[1] = 2

\* C8: once the bucket columns are computed, every row has exactly one
\* bucket_emotion and one bucket_domain, each in {1, 2, 3}.
C8_BucketTotality ==
    /\ EmotionBucketed =>
         /\ DOMAIN bucket_emotion_col = Rows
         /\ \A r \in Rows : bucket_emotion_col[r] \in {1, 2, 3}
    /\ DomainBucketed =>
         /\ DOMAIN bucket_domain_col = Rows
         /\ \A r \in Rows : bucket_domain_col[r] \in {1, 2, 3}
    /\ pc \in {"counts", "emo_filter", "emo_loop", "dom_filter", "dom_loop", "done"} =>
         EmotionBucketed /\ DomainBucketed

\* an unknown token and an empty entry on the domain side, no label and an
\* empty cell on the emotion side
C8_Witness ==
    /\ pc = "done"
    /\ manual_domains[1] = <<"foo", "">>
    /\ DomainPro[1] = Str(" ")
    /\ manual_emotions[1] = <<>>
    /\ EmotionPro[1] = NaN
    /\ bucket_domain_col[1] = 3
    /\ bucket_emotion_col[1] = 3

\* C9: canonical_domain(canonical_domain(x)) = canonical_domain(x) for every
\* argument, and every value of the alias table maps to itself.
C9_CanonicalDomainIdempotent ==
    /\ pc = "returned" => ret2 = ret1
    /\ pc /= "call" =>
         \A k \in DOMAIN DOMAIN_ALIAS : arg = Str(DOMAIN_ALIAS[k]) => ret1 = DOMAIN_ALIAS[k]

C9_Witness ==
    /\ pc = "returned"
    /\ arg = Str(" fitness  ")
    /\ ret1 = "exercise/fitness"
    /\ ret2 = "exercise/fitness"

Coarse == DOMAIN EMOTION_ADJ

\* C10 as claimed: "surprise" against a single other coarse emotion, in either
\* role, gets bucket_emotion 3.
C10_SurpriseNoAdjacency ==
    EmotionBucketed =>
        \A r \in Rows : \A m \in Coarse \ {"surprise"} :
            ( \/ classifier_emotion_norm[r] = "surprise" /\ EmotionMset(r) = {m}
              \/ classifier_emotion_norm[r] = m /\ EmotionMset(r) = {"surprise"} )
            => bucket_emotion_col[r] = 3

\* C10 amended: "surprise" against a single coarse emotion other than
\* "surprise" and "mixed", in either role, gets bucket_emotion 3; against
\* "mixed", whose entry lists "surprise", it gets 2.
C10_SurpriseAdjacentOnlyToMixed ==
    EmotionBucketed =>
        \A r \in Rows : \A m \in Coarse \ {"surprise"} :
            ( \/ classifier_emotion_norm[r] = "surprise" /\ EmotionMset(r) = {m}
              \/ classifier_emotion_norm[r] = m /\ EmotionMset(r) = {"surprise"} )
            => bucket_emotion_col[r] = IF m = "mixed" THEN 2 ELSE 3

C10_Witness ==
    /\ pc = "done"
    /\ classifier_emotion_norm[1] = "surprise"
    /\ EmotionMset(1) = {"joy"}
    /\ bucket_emotion_col[1] = 3

====
